---- MODULE Spec2Model ----
(***************************************************************************)
(* Model of src/src/rfid_to_square_sync.py: the translation layer between  *)
(* item-level RFID scan data (one EPC per physical unit) and SKU-level     *)
(* point-of-sale inventory.                                                *)
(*                                                                         *)
(*   aggregate_epcs_by_sku            scan -> per-SKU pool of EPCs         *)
(*   build_square_inventory_payload   SKU counts + catalog -> request      *)
(*   process_sale_event               sale event + pool -> retirements     *)
(*                                                                         *)
(* Python dicts are modelled as functions whose DOMAIN is the key set,     *)
(* Python lists as sequences, Python str as strings.  A dict that is       *)
(* iterated (sku_counts) is modelled as the sequence of its (key, value)   *)
(* pairs in insertion order.  log.warning calls append to a warning log.   *)
(***************************************************************************)
EXTENDS Integers, Sequences, FiniteSets, TLC

VARIABLES
    scan_data,           \* the snapshot's "items" list (read-only input)
    sku_to_epcs,         \* the SKU pool: dict sku -> list of EPCs
    pc,                  \* position of the run / of the current call
    sale_event,          \* the payment of the sale event being processed
    idx,                 \* number of line items of sale_event handled so far
    retirement_records,  \* the list process_sale_event is building
    warnings,            \* log.warning calls of the current call
    retired,             \* history: every record emitted during the run
    before,              \* history: state at the start of the last line item
    calls,               \* history of whole calls: pool at entry, list returned
    catalog,             \* build: the catalog argument of the last build
    sku_counts,          \* build: the sku_counts argument of the last build
    store_id,            \* build: the store_id argument of the last build
    occurred_at,         \* build: the occurred_at argument of the last build
    result,              \* build: outcome of the last build
    previous             \* build: store, timestamp and key of the build before

vars == <<scan_data, sku_to_epcs, pc, sale_event, idx, retirement_records,
          warnings, retired, before, calls, catalog, sku_counts, store_id,
          occurred_at, result, previous>>

buildVars == <<catalog, sku_counts, store_id, occurred_at, result, previous>>

-----------------------------------------------------------------------------
(* Bounds                                                                  *)

MaxItems == 3        \* items in a snapshot (aggregation)
MaxRunItems == 2     \* items in the snapshot of a run with sale events
MaxEventSize == 4    \* size of a sale event: sum over line items of 1 + quantity
MaxCalls == 2        \* whole calls on one pool with one event (replay)
MaxCount == 12       \* largest per-SKU count handed to the payload builder

-----------------------------------------------------------------------------
(* Python conversions                                                      *)

Digits == <<"0", "1", "2", "3", "4", "5", "6", "7", "8", "9">>

RECURSIVE str(_)
\* str(n) of a non-negative int: its decimal digits.
str(n) == IF n < 10 THEN Digits[n + 1]
          ELSE str(n \div 10) \o Digits[(n % 10) + 1]

DigitValue(c) == CHOOSE d \in 0..9 : Digits[d + 1] = c

RECURSIVE int(_)
\* int(s) of a string of decimal digits.
int(s) == IF Len(s) = 1 THEN DigitValue(s)
          ELSE 10 * int(SubSeq(s, 1, Len(s) - 1)) + DigitValue(SubSeq(s, Len(s), Len(s)))

-----------------------------------------------------------------------------
(* Input documents                                                         *)

SKUS == {"SKU-A", "SKU-B"}
STATUSES == {"in_store", "sold"}

Epc(i) == "E" \o str(i)

\* Items: the fields the translation reads (epc, sku, status).
Items(n) == [epc : {Epc(i) : i \in 1..n}, sku : SKUS, status : STATUSES]

\* Every snapshot of at most n items.
Snapshots(n) == UNION {[1..k -> Items(n)] : k \in 0..n}

\* Snapshots of a run: identifiers are unique, item i carries the i-th tag.
RunSnapshots(n) == {s \in Snapshots(n) : \A i \in 1..Len(s) : s[i].epc = Epc(i)}

LineItems(n) == [sku : SKUS, quantity : {str(q) : q \in 0..(n - 1)}]

RECURSIVE LineItemLists(_)
\* Line-item lists of size at most n, a line item of quantity q having size 1 + q.
LineItemLists(n) ==
    {<<>>} \cup
    UNION {{<<l>> \o rest : rest \in LineItemLists(n - 1 - int(l.quantity))} :
           l \in {x \in LineItems(n) : 1 + int(x.quantity) <= n}}

Payment(lines) == [order_id |-> "ORD-1", created_at |-> "T0", line_items |-> lines]

SaleEvents == {Payment(lines) : lines \in LineItemLists(MaxEventSize)}

NoEvent == Payment(<<>>)

EmptyDict == [k \in {} |-> <<>>]

-----------------------------------------------------------------------------
(* STEP 2: aggregate_epcs_by_sku                                           *)

\* Mutant: the list for the key is overwritten instead of appended to.
AppendToKeyOverwrite(d, k, v) ==
    [x \in DOMAIN d \cup {k} |-> IF x = k THEN <<v>> ELSE d[x]]

\* sku_to_epcs[item["sku"]].append(item["epc"]) on a defaultdict(list).
AppendToKey(d, k, v) ==
    IF k \in DOMAIN d THEN [d EXCEPT ![k] = Append(@, v)]
    ELSE [x \in DOMAIN d \cup {k} |-> IF x = k THEN <<v>> ELSE d[x]]

RECURSIVE AggregateLoopReversed(_, _, _)
\* Mutant: the items are visited last to first.
AggregateLoopReversed(items, i, d) ==
    IF i > Len(items) THEN d
    ELSE LET it == items[Len(items) + 1 - i]
         IN  AggregateLoopReversed(items, i + 1,
                 IF it.status = "in_store" THEN AppendToKey(d, it.sku, it.epc) ELSE d)

RECURSIVE AggregateLoop(_, _, _)
\* The for loop over scan_data["items"], from item i on.
AggregateLoop(items, i, d) ==
    IF i > Len(items) THEN d
    ELSE AggregateLoop(items, i + 1,
             IF items[i].status = "in_store"
             THEN AppendToKey(d, items[i].sku, items[i].epc)
             ELSE d)

aggregate_epcs_by_sku(items) == AggregateLoop(items, 1, EmptyDict)

-----------------------------------------------------------------------------
(* STEP 4: process_sale_event                                              *)

NowInstant == "NOW"

\* The record appended for one retired EPC.
RetirementRecord(payment, sku, epc) ==
    [epc |-> epc,
     sku |-> sku,
     status |-> "sold",
     sold_at |-> IF "created_at" \in DOMAIN payment THEN payment.created_at
                 ELSE NowInstant,
     square_order_id |-> payment.order_id]

\* Mutant: pop() instead of pop(0), the last element is removed.
PopLast(pool, sku) == [pool EXCEPT ![sku] = SubSeq(@, 1, Len(@) - 1)]

\* sku_to_epcs[sku].pop(0): the list without its first element.
PopFirst(pool, sku) == [pool EXCEPT ![sku] = Tail(@)]

RECURSIVE PopLoopNoRemove(_, _, _, _)
\* Mutant: the first EPC is read (list[0]) but not removed.
PopLoopNoRemove(payment, sku, n, st) ==
    IF n <= 0 THEN st
    ELSE IF st.pool[sku] = <<>>
    THEN [st EXCEPT !.warnings = Append(@, [kind |-> "oversold", sku |-> sku])]
    ELSE PopLoopNoRemove(payment, sku, n - 1,
             [st EXCEPT !.records =
                  Append(@, RetirementRecord(payment, sku, Head(st.pool[sku])))])

RECURSIVE PopLoopEager(_, _, _, _)
\* Mutant: the shortage is tested after the pop, so a sale that takes exactly
\* the last EPC is reported as an oversell.
PopLoopEager(payment, sku, n, st) ==
    IF n <= 0 THEN st
    ELSE LET nx == [pool |-> PopFirst(st.pool, sku),
                    records |-> Append(st.records,
                                       RetirementRecord(payment, sku, Head(st.pool[sku]))),
                    warnings |-> st.warnings]
         IN  IF nx.pool[sku] = <<>>
             THEN [nx EXCEPT !.warnings = Append(@, [kind |-> "oversold", sku |-> sku])]
             ELSE PopLoopEager(payment, sku, n - 1, nx)

RECURSIVE PopLoop(_, _, _, _)
\* for _ in range(n): the remaining n iterations of the inner loop.
\* st = [pool, records, warnings].
PopLoop(payment, sku, n, st) ==
    IF n <= 0 THEN st
    ELSE IF st.pool[sku] = <<>>
    THEN [st EXCEPT !.warnings = Append(@, [kind |-> "oversold", sku |-> sku])]
    ELSE PopLoop(payment, sku, n - 1,
             [pool |-> PopFirst(st.pool, sku),
              records |-> Append(st.records,
                                 RetirementRecord(payment, sku, Head(st.pool[sku]))),
              warnings |-> st.warnings])

\* Mutant: the pool is read as a defaultdict, so looking up an unknown SKU
\* adds it with an empty list.
process_line_item_defaultdict(payment, line_item, st) ==
    LET sku == line_item.sku
        qty_sold == int(line_item.quantity)
        pool == IF sku \in DOMAIN st.pool THEN st.pool
                ELSE [x \in DOMAIN st.pool \cup {sku} |->
                          IF x = sku THEN <<>> ELSE st.pool[x]]
    IN  IF Len(pool[sku]) = 0
        THEN [pool |-> pool, records |-> st.records,
              warnings |-> Append(st.warnings, [kind |-> "no_epcs", sku |-> sku])]
        ELSE PopLoop(payment, sku, qty_sold, st)

\* The body of the loop over line items, for one line item.
process_line_item(payment, line_item, st) ==
    LET sku == line_item.sku
        qty_sold == int(line_item.quantity)
    IN  IF sku \notin DOMAIN st.pool \/ Len(st.pool[sku]) = 0
        THEN [st EXCEPT !.warnings = Append(@, [kind |-> "no_epcs", sku |-> sku])]
        ELSE PopLoop(payment, sku, qty_sold, st)

RECURSIVE LineItemLoop(_, _, _)
\* The loop over line items, from line item i on.
LineItemLoop(payment, i, st) ==
    IF i > Len(payment.line_items) THEN st
    ELSE LineItemLoop(payment, i + 1,
                      process_line_item(payment, payment.line_items[i], st))

\* The whole call: the records returned, the pool as mutated, the warnings logged.
process_sale_event(payment, pool) ==
    LineItemLoop(payment, 1, [pool |-> pool, records |-> <<>>, warnings |-> <<>>])

-----------------------------------------------------------------------------
(* The reconciliation run: aggregate once, then sale events one at a time  *)

NoStep == [pool |-> EmptyDict, records |-> <<>>, warnings |-> <<>>]

NoBuild ==
    /\ catalog = [sku_map |-> EmptyDict, location_map |-> EmptyDict]
    /\ sku_counts = <<>>
    /\ store_id = ""
    /\ occurred_at = ""
    /\ result = [outcome |-> "none"]
    /\ previous = [outcome |-> "none"]

InitRunVars ==
    /\ sku_to_epcs = EmptyDict
    /\ pc = "loaded"
    /\ idx = 0
    /\ retirement_records = <<>>
    /\ warnings = <<>>
    /\ retired = <<>>
    /\ before = NoStep
    /\ calls = <<>>

Init ==
    /\ scan_data \in RunSnapshots(MaxRunItems)
    /\ sale_event = NoEvent
    /\ InitRunVars
    /\ NoBuild

\* main: sku_to_epcs = aggregate_epcs_by_sku(scan_data)
Aggregate ==
    /\ pc = "loaded"
    /\ sku_to_epcs' = aggregate_epcs_by_sku(scan_data)
    /\ pc' = "idle"
    /\ UNCHANGED <<scan_data, sale_event, idx, retirement_records, warnings,
                   retired, before, calls>>
    /\ UNCHANGED buildVars

\* process_sale_event is entered with a sale event: retirement_records = [].
BeginSale(ev) ==
    /\ pc = "idle"
    /\ sale_event' = ev
    /\ idx' = 0
    /\ retirement_records' = <<>>
    /\ warnings' = <<>>
    /\ before' = NoStep
    /\ pc' = "in_loop"
    /\ UNCHANGED <<scan_data, sku_to_epcs, retired, calls>>
    /\ UNCHANGED buildVars

\* One iteration of the loop over line items.
LineItem ==
    /\ pc = "in_loop"
    /\ idx < Len(sale_event.line_items)
    /\ LET st == [pool |-> sku_to_epcs, records |-> retirement_records,
                  warnings |-> warnings]
           nx == process_line_item(sale_event, sale_event.line_items[idx + 1], st)
       IN  /\ before' = st
           /\ sku_to_epcs' = nx.pool
           /\ retirement_records' = nx.records
           /\ warnings' = nx.warnings
           /\ retired' = retired \o SubSeq(nx.records, Len(st.records) + 1, Len(nx.records))
    /\ idx' = idx + 1
    /\ UNCHANGED <<scan_data, pc, sale_event, calls>>
    /\ UNCHANGED buildVars

\* The loop is over: return retirement_records; the call's locals are gone.
Return ==
    /\ pc = "in_loop"
    /\ idx = Len(sale_event.line_items)
    /\ pc' = "idle"
    /\ sale_event' = NoEvent
    /\ idx' = 0
    /\ retirement_records' = <<>>
    /\ warnings' = <<>>
    /\ before' = NoStep
    /\ UNCHANGED <<scan_data, sku_to_epcs, retired, calls>>
    /\ UNCHANGED buildVars

Next ==
    \/ Aggregate
    \/ \E ev \in SaleEvents : BeginSale(ev)
    \/ LineItem
    \/ Return

Spec == Init /\ [][Next]_vars

-----------------------------------------------------------------------------
(* Aggregation alone, over every snapshot (identifiers may repeat)         *)

InitAgg ==
    /\ scan_data \in Snapshots(MaxItems)
    /\ sale_event = NoEvent
    /\ InitRunVars
    /\ NoBuild

NextAgg == Aggregate

SpecAgg == InitAgg /\ [][NextAgg]_vars

-----------------------------------------------------------------------------
(* Replay: a caller invokes process_sale_event with one event several      *)
(* times on the same pool                                                  *)

InitReplay ==
    /\ scan_data \in RunSnapshots(MaxRunItems)
    /\ sale_event \in SaleEvents
    /\ InitRunVars
    /\ NoBuild

\* retirement_records = process_sale_event(sale_event, sku_to_epcs)
Invoke ==
    /\ pc = "idle"
    /\ Len(calls) < MaxCalls
    /\ LET r == process_sale_event(sale_event, sku_to_epcs)
       IN  /\ sku_to_epcs' = r.pool
           /\ calls' = Append(calls, [pool |-> sku_to_epcs, records |-> r.records])
           /\ warnings' = r.warnings
           /\ retired' = retired \o r.records
    /\ UNCHANGED <<scan_data, pc, sale_event, idx, retirement_records, before>>
    /\ UNCHANGED buildVars

NextReplay ==
    \/ Aggregate
    \/ Invoke

SpecReplay == InitReplay /\ [][NextReplay]_vars

-----------------------------------------------------------------------------
(* STEP 3: build_square_inventory_payload                                  *)

\* One PHYSICAL_COUNT change.
Change(square_obj_id, location_id, count, when) ==
    [type |-> "PHYSICAL_COUNT",
     physical_count |-> [catalog_object_id |-> square_obj_id,
                         location_id |-> location_id,
                         quantity |-> str(count),
                         occurred_at |-> when]]

RECURSIVE BuildLoopSilent(_, _, _, _, _, _)
\* Mutant: a SKU missing from the catalog is skipped without being noted.
BuildLoopSilent(counts, i, sku_map, location_id, when, acc) ==
    IF i > Len(counts) THEN acc
    ELSE LET sku == counts[i][1]
             count == counts[i][2]
         IN  BuildLoopSilent(counts, i + 1, sku_map, location_id, when,
                 IF sku \notin DOMAIN sku_map THEN acc
                 ELSE [acc EXCEPT !.changes =
                           Append(@, Change(sku_map[sku].square_catalog_object_id,
                                            location_id, count, when))])

RECURSIVE BuildLoop(_, _, _, _, _, _)
\* for sku, count in sku_counts.items(), from entry i on.
\* acc = [changes, unmapped_skus].
BuildLoop(counts, i, sku_map, location_id, when, acc) ==
    IF i > Len(counts) THEN acc
    ELSE LET sku == counts[i][1]
             count == counts[i][2]
         IN  BuildLoop(counts, i + 1, sku_map, location_id, when,
                 IF sku \notin DOMAIN sku_map
                 THEN [acc EXCEPT !.unmapped_skus = Append(@, sku)]
                 ELSE [acc EXCEPT !.changes =
                           Append(@, Change(sku_map[sku].square_catalog_object_id,
                                            location_id, count, when))])

\* The warning logged when some SKU was not found in the catalog map.
UnmappedWarning(unmapped_skus) ==
    IF unmapped_skus # <<>>
    THEN <<[kind |-> "unmapped", count |-> Len(unmapped_skus), skus |-> unmapped_skus]>>
    ELSE <<>>

\* Mutant: the key is made unique per content (it carries the number of changes).
RequestKeyedByContent(store, when, acc) ==
    [outcome |-> "returned",
     payload |-> [idempotency_key |->
                      "sync_" \o store \o "_" \o when \o "_" \o str(Len(acc.changes)),
                  changes |-> acc.changes],
     warnings |-> UnmappedWarning(acc.unmapped_skus)]

\* The end of the build: the warning, then the returned request.
Request(store, when, acc) ==
    [outcome |-> "returned",
     payload |-> [idempotency_key |-> "sync_" \o store \o "_" \o when,
                  changes |-> acc.changes],
     warnings |-> UnmappedWarning(acc.unmapped_skus)]

NoChanges == [changes |-> <<>>, unmapped_skus |-> <<>>]

\* Mutant: the location is looked up when the first change is built, after
\* the unmapped SKUs were collected and reported.
build_late_location_lookup(counts, cat, store, when) ==
    IF store \in DOMAIN cat.location_map
    THEN Request(store, when,
                 BuildLoop(counts, 1, cat.sku_map,
                           cat.location_map[store].square_location_id, when, NoChanges))
    ELSE [outcome |-> "KeyError",
          warnings |-> UnmappedWarning(
              BuildLoop(counts, 1, cat.sku_map, "", when, NoChanges).unmapped_skus)]

\* The whole build: a KeyError at the location lookup, or the request.
build_square_inventory_payload(counts, cat, store, when) ==
    IF store \notin DOMAIN cat.location_map
    THEN [outcome |-> "KeyError", warnings |-> <<>>]
    ELSE Request(store, when,
                 BuildLoop(counts, 1, cat.sku_map,
                           cat.location_map[store].square_location_id, when, NoChanges))

-----------------------------------------------------------------------------
(* Builds of count update requests                                         *)

STORES == {"S1", "S2"}
TIMESTAMPS == {"T1", "T2"}
Counts == {0, MaxCount}

CatalogEntry(sku) == [square_catalog_object_id |-> "OBJ-" \o sku,
                      product_name |-> "Product " \o sku]

LocationEntry(store) == [square_location_id |-> "LOC-" \o store]

\* Catalogs: no SKU, one SKU or both SKUs mapped; store S1 mapped, store S2
\* mapped or not.
Catalogs ==
    {[sku_map |-> [s \in M |-> CatalogEntry(s)],
      location_map |-> [t \in L |-> LocationEntry(t)]] :
         M \in {{}, {"SKU-A"}, SKUS}, L \in {{"S1"}, {"S1", "S2"}}}

\* sku_counts dicts as their (sku, count) entries in insertion order.
SkuCountDicts ==
    {d \in UNION {[1..k -> SKUS \X Counts] : k \in 0..Cardinality(SKUS)} :
         \A i, j \in 1..Len(d) : d[i][1] = d[j][1] => i = j}

InitBuild ==
    /\ scan_data = <<>>
    /\ sale_event = NoEvent
    /\ InitRunVars
    /\ NoBuild

\* What a caller keeps of a build when it builds again.
Kept(res, store, when) ==
    IF res.outcome = "returned"
    THEN [outcome |-> "returned", store_id |-> store, occurred_at |-> when,
          idempotency_key |-> res.payload.idempotency_key,
          n_changes |-> Len(res.payload.changes)]
    ELSE [outcome |-> res.outcome]

\* payload = build_square_inventory_payload(sku_counts, catalog, store_id, occurred_at)
Build(counts, cat, store, when) ==
    /\ sku_counts' = counts
    /\ catalog' = cat
    /\ store_id' = store
    /\ occurred_at' = when
    /\ result' = build_square_inventory_payload(counts, cat, store, when)
    /\ previous' = Kept(result, store_id, occurred_at)
    /\ UNCHANGED <<scan_data, sku_to_epcs, pc, sale_event, idx, retirement_records,
                   warnings, retired, before, calls>>

NextBuild ==
    \E counts \in SkuCountDicts, cat \in Catalogs, store \in STORES, when \in TIMESTAMPS :
        Build(counts, cat, store, when)

SpecBuild == InitBuild /\ [][NextBuild]_vars

-----------------------------------------------------------------------------
(* Helpers for stating the properties                                      *)

Min(a, b) == IF a <= b THEN a ELSE b

Range(f) == {f[i] : i \in DOMAIN f}

RECURSIVE SumOfLens(_, _)
\* Total number of identifiers a pool holds over the SKUs in S.
SumOfLens(pool, S) ==
    IF S = {} THEN 0
    ELSE LET s == CHOOSE x \in S : TRUE
         IN  Len(pool[s]) + SumOfLens(pool, S \ {s})

PoolSize(pool) == SumOfLens(pool, DOMAIN pool)

\* The pool's sequence for a SKU, a SKU without entry having none.
PoolOf(pool, sku) == IF sku \in DOMAIN pool THEN pool[sku] ELSE <<>>

\* The identifiers of the snapshot's in_store items of one SKU, in input order.
RECURSIVE InStoreOf(_, _)
InStoreOf(items, sku) ==
    IF items = <<>> THEN <<>>
    ELSE LET rest == InStoreOf(Tail(items), sku)
         IN  IF Head(items).sku = sku /\ Head(items).status = "in_store"
             THEN <<Head(items).epc>> \o rest
             ELSE rest

\* A line item has just been handled by the loop of process_sale_event.
AfterLineItem == pc = "in_loop" /\ idx >= 1

LastLine == sale_event.line_items[idx]

\* The quantity of the last line item, as the number its text denotes.
LastQty == CHOOSE q \in 0..MaxEventSize : str(q) = LastLine.quantity

\* What the last line item added to the records and to the warning log.
NewRecords == SubSeq(retirement_records, Len(before.records) + 1, Len(retirement_records))

NewWarnings == SubSeq(warnings, Len(before.warnings) + 1, Len(warnings))

\* The loop goes on after the last line item: the call has not ended, and
\* the next line item, if there is one, is handled.
LoopGoesOn ==
    /\ pc = "in_loop"
    /\ retirement_records = before.records \o NewRecords
    /\ idx < Len(sale_event.line_items) => ENABLED LineItem

-----------------------------------------------------------------------------
(* Properties of process_sale_event                                        *)

\* C1: FIFO per SKU. A line item (sku, q) that finds the sequence p for its
\* SKU removes exactly the first min(q, Len(p)) identifiers of p, appends one
\* retirement record per removed identifier in that order after the records of
\* the earlier line items, and leaves the rest of p as the pool for sku.
C1_FifoPerSku ==
    AfterLineItem /\ LastLine.sku \in DOMAIN before.pool =>
        LET sku == LastLine.sku
            p == before.pool[sku]
            m == Min(LastQty, Len(p))
        IN  /\ sku_to_epcs[sku] = SubSeq(p, m + 1, Len(p))
            /\ Len(retirement_records) = Len(before.records) + m
            /\ SubSeq(retirement_records, 1, Len(before.records)) = before.records
            /\ \A i \in 1..m :
                   /\ NewRecords[i].epc = p[i]
                   /\ NewRecords[i].sku = sku
                   /\ NewRecords[i].status = "sold"

\* C1 witness: pool [E1, E2], quantity 1: record E1, pool [E2].
C1_Witness ==
    /\ AfterLineItem
    /\ LastLine.sku \in DOMAIN before.pool
    /\ before.pool[LastLine.sku] = <<"E1", "E2">>
    /\ LastQty = 1
    /\ sku_to_epcs[LastLine.sku] = <<"E2">>
    /\ Len(NewRecords) = 1 /\ NewRecords[1].epc = "E1"

\* C2: no identifier is retired twice during a run, and every retired
\* identifier was in the pool as constructed and is no longer in the pool.
C2_RetiredOnce ==
    LET constructed == aggregate_epcs_by_sku(scan_data)
        distinct == \A i, j \in 1..Len(scan_data) :
                        scan_data[i].epc = scan_data[j].epc => i = j
    IN  pc # "loaded" /\ distinct =>
            /\ \A i, j \in 1..Len(retired) : retired[i].epc = retired[j].epc => i = j
            /\ \A i \in 1..Len(retired) :
                   /\ retired[i].sku \in DOMAIN constructed
                   /\ retired[i].epc \in Range(constructed[retired[i].sku])
                   /\ \A s \in DOMAIN sku_to_epcs : retired[i].epc \notin Range(sku_to_epcs[s])
            /\ SubSeq(retired, Len(retired) - Len(retirement_records) + 1, Len(retired))
                   = retirement_records

\* C2 witness: a later call retires an identifier after an earlier call
\* retired another one of the same SKU.
C2_Witness ==
    /\ AfterLineItem
    /\ Len(retirement_records) = 1
    /\ Len(retired) = 2
    /\ retired[1].sku = retired[2].sku

\* C5: oversell. A line item (sku, q) that finds n identifiers, 0 < n < q,
\* emits exactly n records, logs one oversell warning, leaves the pool for sku
\* empty, and the loop goes on; with q <= n no oversell warning is logged.
C5_Oversell ==
    AfterLineItem =>
        LET sku == LastLine.sku
            n == Len(PoolOf(before.pool, sku))
            q == LastQty
        IN  /\ (0 < n /\ n < q) =>
                   /\ Len(NewRecords) = n
                   /\ NewWarnings = <<[kind |-> "oversold", sku |-> sku]>>
                   /\ sku_to_epcs[sku] = <<>>
                   /\ LoopGoesOn
            /\ q <= n =>
                   \A i \in 1..Len(NewWarnings) : NewWarnings[i].kind # "oversold"

\* C5 witness: pool [E1], quantity 2: one record, one warning, pool empty,
\* and a further line item still to be handled.
C5_Witness ==
    /\ AfterLineItem
    /\ PoolOf(before.pool, LastLine.sku) = <<"E1">>
    /\ LastQty = 2
    /\ Len(NewRecords) = 1
    /\ Len(NewWarnings) = 1
    /\ sku_to_epcs[LastLine.sku] = <<>>
    /\ idx < Len(sale_event.line_items)

\* C6: a line item whose SKU has no pool entry, or an empty one, emits no
\* record, logs exactly one warning, leaves the whole pool as it was (no key
\* added), and the loop goes on.
C6_UnknownSkuSkipped ==
    AfterLineItem /\ PoolOf(before.pool, LastLine.sku) = <<>> =>
        /\ NewRecords = <<>>
        /\ retirement_records = before.records
        /\ Len(NewWarnings) = 1
        /\ NewWarnings[1].sku = LastLine.sku
        /\ sku_to_epcs = before.pool
        /\ DOMAIN sku_to_epcs = DOMAIN before.pool
        /\ LoopGoesOn

\* C6 witness: the second line item names the SKU the first one emptied, and
\* a third line item is still to come.
C6_Witness ==
    /\ AfterLineItem
    /\ idx = 2
    /\ Len(sale_event.line_items) = 3
    /\ sale_event.line_items[1].sku = LastLine.sku
    /\ LastLine.sku \in DOMAIN before.pool
    /\ before.pool[LastLine.sku] = <<>>
    /\ Len(before.records) = 1
    /\ Len(warnings) = 1

\* C6 second case, reached as well: the SKU has no pool entry at all.
C6_UnknownReached ==
    /\ AfterLineItem
    /\ LastLine.sku \notin DOMAIN before.pool
    /\ idx < Len(sale_event.line_items)

-----------------------------------------------------------------------------
(* Properties of replaying one sale event on the same pool                 *)

RecordEpcs(records) == {records[i].epc : i \in 1..Len(records)}

\* C9 as stated: the second call with the same event sees a smaller pool,
\* returns fewer records than the first call or none, and none of its records
\* names an identifier the first call removed.  ("Sees a smaller pool" is read
\* in the claim's favour: smaller whenever the first call removed anything.)
C9_AsStated ==
    Len(calls) >= 2 =>
        /\ calls[1].records # <<>> => PoolSize(calls[2].pool) < PoolSize(calls[1].pool)
        /\ \/ Len(calls[2].records) < Len(calls[1].records)
           \/ Len(calls[2].records) = 0
        /\ RecordEpcs(calls[2].records) \cap RecordEpcs(calls[1].records) = {}

\* C9 amended: each further call with the same event sees a pool that is no
\* larger (smaller exactly when the call before returned a record), returns no
\* more records than the call before, and none of its records names an
\* identifier an earlier call removed.
C9_ReplayShrinks ==
    \A i, j \in 1..Len(calls) : i < j =>
        /\ PoolSize(calls[j].pool) <= PoolSize(calls[i].pool)
        /\ (PoolSize(calls[j].pool) < PoolSize(calls[i].pool)) <=>
               (\E k \in i..(j - 1) : calls[k].records # <<>>)
        /\ Len(calls[j].records) <= Len(calls[i].records)
        /\ RecordEpcs(calls[j].records) \cap RecordEpcs(calls[i].records) = {}

\* C9 witness: pool [E1, E2], quantity 1, replayed: the second call returns
\* as many records as the first.
C9_Witness ==
    /\ Len(calls) = 2
    /\ Len(calls[1].records) = 1
    /\ Len(calls[2].records) = 1
    /\ calls[1].records[1].epc = "E1"
    /\ calls[2].records[1].epc = "E2"

-----------------------------------------------------------------------------
(* Properties of aggregate_epcs_by_sku                                     *)

InStoreCount(items) == Cardinality({i \in 1..Len(items) : items[i].status = "in_store"})

\* C3: conservation. The pool sizes add up to the number of in_store items.
C3_Conservation ==
    pc = "idle" => PoolSize(sku_to_epcs) = InStoreCount(scan_data)

\* C3 witness: a snapshot with in_store items of both SKUs and a sold item.
C3_Witness ==
    /\ pc = "idle"
    /\ DOMAIN sku_to_epcs = SKUS
    /\ PoolSize(sku_to_epcs) = 2
    /\ Len(scan_data) = 3

\* C4: the sequence for each SKU is the snapshot's in_store items of that SKU
\* in input order, a SKU without in_store item has no entry, and the snapshot
\* is never changed.
C4_OrderPreserving ==
    /\ [](pc = "idle" =>
            /\ DOMAIN sku_to_epcs \subseteq SKUS
            /\ \A s \in SKUS :
                   /\ s \in DOMAIN sku_to_epcs <=> InStoreOf(scan_data, s) # <<>>
                   /\ PoolOf(sku_to_epcs, s) = InStoreOf(scan_data, s))
    /\ [][scan_data' = scan_data]_vars

\* C4 witness: two in_store items of one SKU around an item that is left out,
\* and no entry for the other SKU.
C4_Witness ==
    /\ pc = "idle"
    /\ Len(scan_data) = 3
    /\ scan_data[1].epc = "E3" /\ scan_data[3].epc = "E1"
    /\ scan_data[2].status = "sold"
    /\ DOMAIN sku_to_epcs = {"SKU-A"}
    /\ sku_to_epcs["SKU-A"] = <<"E3", "E1">>

-----------------------------------------------------------------------------
(* Properties of build_square_inventory_payload                            *)

Built == result.outcome # "none"

StoreMapped == store_id \in DOMAIN catalog.location_map

IsMapped(entry) == entry[1] \in DOMAIN catalog.sku_map

IsUnmapped(entry) == entry[1] \notin DOMAIN catalog.sku_map

\* The entries of sku_counts whose SKU the catalog maps, and the others.
MappedEntries == SelectSeq(sku_counts, IsMapped)

UnmappedEntries == SelectSeq(sku_counts, IsUnmapped)

\* C7: with the store mapped, the build returns a request whose changes are,
\* in order, one per entry of sku_counts whose SKU is in sku_map, each with the
\* SKU's catalog object identifier, the store's location identifier and the
\* SKU's count itself as quantity; the other SKUs yield no change and are
\* listed, in order, in one unmapped-SKU warning.
C7_PartitionsSkus ==
    Built /\ StoreMapped =>
        /\ result.outcome = "returned"
        /\ Len(result.payload.changes) = Len(MappedEntries)
        /\ \A i \in 1..Len(MappedEntries) :
               LET c == result.payload.changes[i].physical_count
                   sku == MappedEntries[i][1]
               IN  /\ c.catalog_object_id = catalog.sku_map[sku].square_catalog_object_id
                   /\ c.location_id = catalog.location_map[store_id].square_location_id
                   /\ int(c.quantity) = MappedEntries[i][2]
        /\ \A e \in Range(sku_counts) :
               Cardinality({i \in 1..Len(result.payload.changes) :
                   result.payload.changes[i].physical_count.catalog_object_id
                       = CatalogEntry(e[1]).square_catalog_object_id})
               = IF IsMapped(e) THEN 1 ELSE 0
        /\ UnmappedEntries = <<>> => result.warnings = <<>>
        /\ UnmappedEntries # <<>> =>
               /\ Len(result.warnings) = 1
               /\ result.warnings[1].skus = [i \in 1..Len(UnmappedEntries) |-> UnmappedEntries[i][1]]

\* C7 witness: an unmapped SKU ahead of a mapped one: one change, one warning.
C7_Witness ==
    /\ Built /\ StoreMapped
    /\ Len(sku_counts) = 2
    /\ IsUnmapped(sku_counts[1])
    /\ IsMapped(sku_counts[2])
    /\ sku_counts[2][2] = MaxCount
    /\ Len(result.payload.changes) = 1
    /\ Len(result.warnings) = 1

\* C8: the build fails exactly when the store has no entry in location_map;
\* it then returns no request and logs no unmapped-SKU warning; with the store
\* mapped it returns a request with a key and a list of changes.
C8_LocationGapFatal ==
    Built =>
        /\ ~StoreMapped =>
               /\ result.outcome = "KeyError"
               /\ "payload" \notin DOMAIN result
               /\ result.warnings = <<>>
        /\ StoreMapped =>
               /\ result.outcome = "returned"
               /\ DOMAIN result.payload = {"idempotency_key", "changes"}

\* C8 witness: the store is not mapped and sku_counts holds an unmapped SKU.
C8_Witness ==
    /\ Built
    /\ ~StoreMapped
    /\ UnmappedEntries # <<>>
    /\ result.outcome = "KeyError"

\* C10: two builds with the same store identifier and occurrence timestamp
\* carry the same idempotency key, whatever the counts and the catalog were.
C10_KeyDeterminism ==
    /\ result.outcome = "returned"
    /\ previous.outcome = "returned"
    /\ previous.store_id = store_id
    /\ previous.occurred_at = occurred_at
    => result.payload.idempotency_key = previous.idempotency_key

\* C10 witness: two builds for the same store and timestamp that differ in
\* the number of changes.
C10_Witness ==
    /\ result.outcome = "returned"
    /\ previous.outcome = "returned"
    /\ previous.store_id = store_id
    /\ previous.occurred_at = occurred_at
    /\ previous.n_changes # Len(result.payload.changes)
    /\ result.payload.idempotency_key = "sync_S1_T2"

====
